---------------------------- MODULE Spec2Model ----------------------------
(***************************************************************************)
(* Smart Sheet ESP32 motor controller (src/src/main.cpp).                  *)
(*                                                                         *)
(* The model follows loop(): handleBluetoothInput, handleSerialInput,      *)
(* executePattern, in that order, with millis() advancing in between.      *)
(* Arduino Strings are sequences of one-character strings, so trim,        *)
(* toUpperCase, startsWith, substring, toInt and String(int) are computed  *)
(* rather than assumed.  The PWM peripheral is the function pwm (last duty *)
(* applied to each LEDC channel); writes is the list of ledcWrite calls    *)
(* made by the latest step, serialOut / btOut the lines it printed.        *)
(***************************************************************************)
EXTENDS Integers, Sequences, FiniteSets

\* ------------------------------------------------------------------------
\* Bounds of the model
\* ------------------------------------------------------------------------
\* Number of time steps explored, and the milliseconds of one time step.
MaxElapses == 8
TimeStep == 50
\* Width in bits of the millisecond counter (unsigned long in the source).
ClockWidth == 9

\* ------------------------------------------------------------------------
\* Program constants
\* ------------------------------------------------------------------------
NUM_MOTORS == 8
Channels == 0 .. (NUM_MOTORS - 1)

\* Fixed-point unit used for the float values of executeWavePattern: 2^20.
FloatOne == 1048576

RECURSIVE Pow2(_)
Pow2(n) == IF n = 0 THEN 1 ELSE 2 * Pow2(n - 1)
ClockMod == Pow2(ClockWidth)

\* ------------------------------------------------------------------------
\* String literals of the source, as character sequences
\* ------------------------------------------------------------------------
STR_MODE == <<"M","O","D","E",":">>
STR_INTENSITY == <<"I","N","T","E","N","S","I","T","Y",":">>
STR_SPEED == <<"S","P","E","E","D",":">>
STR_STATUS == <<"S","T","A","T","U","S">>
STR_STOP == <<"S","T","O","P">>
STR_CONSTANT == <<"C","O","N","S","T","A","N","T">>
STR_WAVE == <<"W","A","V","E">>
STR_UNKNOWN == <<"E","R","R","O","R",":"," ","U","n","k","n","o","w","n"," ","c","o","m","m","a","n","d"," ","-"," ">>
STR_OK_MODE_STOP == <<"O","K",":","M","O","D","E",":","S","T","O","P">>
STR_OK_MODE_CONSTANT == <<"O","K",":","M","O","D","E",":","C","O","N","S","T","A","N","T">>
STR_OK_MODE_WAVE == <<"O","K",":","M","O","D","E",":","W","A","V","E">>
STR_INVALID_MODE == <<"E","R","R","O","R",":","I","N","V","A","L","I","D","_","M","O","D","E">>
STR_OK_INTENSITY == <<"O","K",":","I","N","T","E","N","S","I","T","Y",":">>
STR_ERR_INTENSITY == <<"E","R","R","O","R",":","I","N","T","E","N","S","I","T","Y","_","O","U","T","_","O","F","_","R","A","N","G","E">>
STR_OK_SPEED == <<"O","K",":","S","P","E","E","D",":">>
STR_ERR_SPEED == <<"E","R","R","O","R",":","S","P","E","E","D","_","O","U","T","_","O","F","_","R","A","N","G","E">>
STR_STATUS_MODE == <<"S","T","A","T","U","S",":","M","O","D","E",":">>
STR_C_INTENSITY == <<",","I","N","T","E","N","S","I","T","Y",":">>
STR_C_SPEED == <<",","S","P","E","E","D",":">>
STR_ALL_STOPPED == <<"A","l","l"," ","m","o","t","o","r","s"," ","s","t","o","p","p","e","d">>
STR_BT_RECEIVED == <<"B","T"," ","R","e","c","e","i","v","e","d",":"," ">>
STR_SERIAL_RECEIVED == <<"S","e","r","i","a","l"," ","R","e","c","e","i","v","e","d",":"," ">>
STR_WAVE_POSITION == <<"W","a","v","e"," ","P","o","s","i","t","i","o","n",":"," ">>
STR_INTENSITIES == <<" ","|"," ","I","n","t","e","n","s","i","t","i","e","s",":"," ">>

\* ------------------------------------------------------------------------
\* Arduino String operations
\* ------------------------------------------------------------------------
LowerCase == <<"a","b","c","d","e","f","g","h","i","j","k","l","m","n","o","p","q","r","s","t","u","v","w","x","y","z">>
UpperCase == <<"A","B","C","D","E","F","G","H","I","J","K","L","M","N","O","P","Q","R","S","T","U","V","W","X","Y","Z">>
DigitChars == <<"0","1","2","3","4","5","6","7","8","9">>
WhiteSpace == {" ", "\t", "\n", "\r", "\f"}

\* The value of each decimal digit
DigitValue == [c \in {DigitChars[k] : k \in 1 .. 10} |->
                 (CHOOSE k \in 1 .. 10 : DigitChars[k] = c) - 1]

IsDigit(c) == c \in DOMAIN DigitValue
DigitVal(c) == DigitValue[c]

\* The upper-case letter of each lower-case letter
UpperOf == [c \in {LowerCase[k] : k \in 1 .. 26} |->
              UpperCase[CHOOSE k \in 1 .. 26 : LowerCase[k] = c]]

\* String::toUpperCase, one character
ToUpperChar(c) == IF c \in DOMAIN UpperOf THEN UpperOf[c] ELSE c

\* String::toUpperCase
ToUpperCase(s) == [k \in 1 .. Len(s) |-> ToUpperChar(s[k])]

\* String::trim: drop white space at both ends
RECURSIVE TrimLeft(_)
TrimLeft(s) ==
  IF s # <<>> /\ Head(s) \in WhiteSpace THEN TrimLeft(Tail(s)) ELSE s

RECURSIVE TrimRight(_)
TrimRight(s) ==
  IF s # <<>> /\ s[Len(s)] \in WhiteSpace
    THEN TrimRight(SubSeq(s, 1, Len(s) - 1))
    ELSE s

Trim(s) == TrimRight(TrimLeft(s))

\* String::startsWith
StartsWith(s, prefix) ==
  /\ Len(s) >= Len(prefix)
  /\ SubSeq(s, 1, Len(prefix)) = prefix

\* String::substring(from): the characters from index from (0-based) on
Substring(s, from) ==
  IF from >= Len(s) THEN <<>> ELSE SubSeq(s, from + 1, Len(s))

\* The value of the leading run of digits of s, continuing from acc
RECURSIVE DigitsValue(_, _)
DigitsValue(s, acc) ==
  IF s # <<>> /\ IsDigit(Head(s))
    THEN DigitsValue(Tail(s), 10 * acc + DigitVal(Head(s)))
    ELSE acc

\* Faulty variant of ToInt: -1 when the text does not start a number
ToIntFailsNegative(s) ==
  LET t == TrimLeft(s) IN
    IF t = <<>> THEN 0 - 1
    ELSE IF Head(t) = "-" THEN 0 - DigitsValue(Tail(t), 0)
    ELSE IF Head(t) = "+" THEN DigitsValue(Tail(t), 0)
    ELSE IF IsDigit(Head(t)) THEN DigitsValue(t, 0)
    ELSE 0 - 1

\* String::toInt (atol): leading white space, an optional sign, then digits;
\* 0 when no digit follows.
ToInt(s) ==
  LET t == TrimLeft(s) IN
    IF t # <<>> /\ Head(t) = "-" THEN 0 - DigitsValue(Tail(t), 0)
    ELSE IF t # <<>> /\ Head(t) = "+" THEN DigitsValue(Tail(t), 0)
    ELSE DigitsValue(t, 0)

\* String(int): decimal digits of a natural number
RECURSIVE NatToString(_)
NatToString(n) ==
  IF n < 10 THEN <<DigitChars[n + 1]>>
  ELSE NatToString(n \div 10) \o <<DigitChars[(n % 10) + 1]>>

\* String(int)
IntToString(n) == IF n < 0 THEN <<"-">> \o NatToString(0 - n) ELSE NatToString(n)


\* ------------------------------------------------------------------------
\* Inputs: the lines a transport may deliver
\* ------------------------------------------------------------------------
IntensityArgs == {-1, 0, 255, 256}
SpeedArgs == {49, 50, 500, 501}
NonNumeric == <<"A","B","C">>

Lines ==
  {STR_MODE \o m : m \in {STR_STOP, STR_CONSTANT, STR_WAVE, <<"F","O","O">>}}
  \cup {STR_INTENSITY \o IntToString(n) : n \in IntensityArgs}
  \cup {STR_SPEED \o IntToString(n) : n \in SpeedArgs}
  \cup {STR_INTENSITY \o NonNumeric, STR_SPEED \o NonNumeric}
  \cup {STR_STATUS, <<"s","t","a","t","u","s","\r">>, <<" ">>,
        <<"F","O","O",":","1">>}

\* Milliseconds that may pass between two steps
TimeSteps == {TimeStep}

\* ------------------------------------------------------------------------
\* State
\* ------------------------------------------------------------------------
VARIABLES
  pc,                  \* position in loop(): "bluetooth", "serial", "pattern"
  currentMode,         \* PatternMode
  globalIntensity,
  waveSpeed,
  currentWavePosition,
  lastWaveUpdate,
  motorIntensities,    \* [Channels -> Int]
  pwm,                 \* duty last applied by ledcWrite to each channel
  clock,               \* value millis() returns
  uptime,              \* milliseconds really elapsed since the start
  lastUpdateAt,        \* uptime at the latest wave update, -1 before any
  waveUpdates,         \* wave updates since the latest accepted MODE:WAVE
  command,             \* the trimmed line read by the latest step
  writes,              \* ledcWrite calls of the latest step: <<channel, duty>>
  serialOut,           \* lines the latest step printed on Serial
  btOut                \* lines the latest step printed on SerialBT

control == <<currentMode, globalIntensity, waveSpeed, currentWavePosition,
             lastWaveUpdate, motorIntensities>>

vars == <<pc, currentMode, globalIntensity, waveSpeed, currentWavePosition,
          lastWaveUpdate, motorIntensities, pwm, clock, uptime, lastUpdateAt,
          waveUpdates, command, writes, serialOut, btOut>>

\* The channels in loop order 0, 1, ..., 7
ChannelOrder == [k \in 1 .. NUM_MOTORS |-> k - 1]

Init ==
  /\ pc = "bluetooth"
  /\ currentMode = "MODE_STOP"
  /\ globalIntensity = 128
  /\ waveSpeed = 100
  /\ currentWavePosition = 0
  /\ lastWaveUpdate = 0
  /\ motorIntensities = [i \in Channels |-> 0]
  /\ pwm = [i \in Channels |-> 0]
  /\ clock = 0
  /\ uptime = 0
  /\ lastUpdateAt = -1
  /\ waveUpdates = 0
  /\ command = <<>>
  /\ writes = <<>>
  /\ serialOut = <<>>
  /\ btOut = <<>>

\* ------------------------------------------------------------------------
\* Command processing
\* ------------------------------------------------------------------------
\* Faulty variant of StopAllMotorsWrites: only the channels that are not yet at 0
StopAllMotorsWritesDirtyOnly ==
  LET dirty == SelectSeq(ChannelOrder, LAMBDA i : motorIntensities[i] # 0)
  IN  [k \in 1 .. Len(dirty) |-> <<dirty[k], 0>>]

\* Faulty variant of StopAllMotorsWrites: the loop stops one channel early
StopAllMotorsWritesSkipLast ==
  [k \in 1 .. (NUM_MOTORS - 1) |-> <<ChannelOrder[k], 0>>]

\* stopAllMotors: the ledcWrite calls of the loop
StopAllMotorsWrites == [k \in 1 .. NUM_MOTORS |-> <<ChannelOrder[k], 0>>]

\* stopAllMotors
StopAllMotors ==
  /\ motorIntensities' = [i \in Channels |-> 0]
  /\ writes' = StopAllMotorsWrites
  /\ pwm' = [i \in Channels |->
               IF \E k \in 1 .. Len(StopAllMotorsWrites) :
                    StopAllMotorsWrites[k][1] = i
                 THEN 0 ELSE pwm[i]]

\* Faulty variant of WaveStartPosition: the wave position is not reset
WaveStartPositionKept == currentWavePosition

\* setMode, branch WAVE: the value assigned to currentWavePosition
WaveStartPosition == 0

\* setMode; printed is what the caller has already printed on Serial
SetMode(mode, printed) ==
  IF mode = STR_STOP THEN
    /\ currentMode' = "MODE_STOP"
    /\ StopAllMotors
    /\ serialOut' = printed \o <<STR_ALL_STOPPED, STR_OK_MODE_STOP>>
    /\ btOut' = <<STR_OK_MODE_STOP>>
    /\ UNCHANGED <<globalIntensity, waveSpeed, currentWavePosition,
                   lastWaveUpdate, waveUpdates>>
  ELSE IF mode = STR_CONSTANT THEN
    /\ currentMode' = "MODE_CONSTANT"
    /\ serialOut' = printed \o <<STR_OK_MODE_CONSTANT>>
    /\ btOut' = <<STR_OK_MODE_CONSTANT>>
    /\ writes' = <<>>
    /\ UNCHANGED <<globalIntensity, waveSpeed, currentWavePosition,
                   lastWaveUpdate, motorIntensities, pwm, waveUpdates>>
  ELSE IF mode = STR_WAVE THEN
    /\ currentMode' = "MODE_WAVE"
    /\ currentWavePosition' = WaveStartPosition
    /\ waveUpdates' = 0
    /\ serialOut' = printed \o <<STR_OK_MODE_WAVE>>
    /\ btOut' = <<STR_OK_MODE_WAVE>>
    /\ writes' = <<>>
    /\ UNCHANGED <<globalIntensity, waveSpeed, lastWaveUpdate,
                   motorIntensities, pwm>>
  ELSE
    /\ serialOut' = printed \o <<STR_INVALID_MODE>>
    /\ btOut' = <<STR_INVALID_MODE>>
    /\ writes' = <<>>
    /\ UNCHANGED <<control, pwm, waveUpdates>>

\* Faulty variant of IntensityInRange: upper limit off by one
IntensityInRangeUpTo256(value) == value >= 0 /\ value <= 256

\* setIntensity: the range check
IntensityInRange(value) == value >= 0 /\ value <= 255

\* Faulty variant of NewIntensity: an out-of-range value is clamped and stored
NewIntensityClamped(value) ==
  IF value > 255 THEN 255 ELSE IF value < 0 THEN 0 ELSE value

\* setIntensity: globalIntensity after the call
NewIntensity(value) == IF IntensityInRange(value) THEN value ELSE globalIntensity

\* setIntensity: the response
IntensityResponse(value) ==
  IF IntensityInRange(value)
    THEN STR_OK_INTENSITY \o IntToString(value)
    ELSE STR_ERR_INTENSITY

\* Faulty variant of SetIntensity: in mode Constant an accepted intensity is
\* written to the channels at once
SetIntensityApplied(value, printed) ==
  /\ globalIntensity' = NewIntensity(value)
  /\ serialOut' = printed \o <<IntensityResponse(value)>>
  /\ btOut' = <<IntensityResponse(value)>>
  /\ IF IntensityInRange(value) /\ currentMode = "MODE_CONSTANT"
       THEN /\ motorIntensities' = [i \in Channels |-> value]
            /\ pwm' = [i \in Channels |-> value]
            /\ writes' = [k \in 1 .. NUM_MOTORS |-> <<ChannelOrder[k], value>>]
       ELSE /\ writes' = <<>>
            /\ UNCHANGED <<motorIntensities, pwm>>
  /\ UNCHANGED <<currentMode, waveSpeed, currentWavePosition, lastWaveUpdate,
                 waveUpdates>>

\* setIntensity
SetIntensity(value, printed) ==
  /\ globalIntensity' = NewIntensity(value)
  /\ serialOut' = printed \o <<IntensityResponse(value)>>
  /\ btOut' = <<IntensityResponse(value)>>
  /\ writes' = <<>>
  /\ UNCHANGED <<currentMode, waveSpeed, currentWavePosition, lastWaveUpdate,
                 motorIntensities, pwm, waveUpdates>>

\* Faulty variant of SpeedInRange: lower limit exclusive
SpeedInRangeAbove50(value) == value > 50 /\ value <= 500

\* setWaveSpeed: the range check
SpeedInRange(value) == value >= 50 /\ value <= 500

\* setWaveSpeed: waveSpeed after the call
NewWaveSpeed(value) == IF SpeedInRange(value) THEN value ELSE waveSpeed

\* setWaveSpeed: the response
SpeedResponse(value) ==
  IF SpeedInRange(value)
    THEN STR_OK_SPEED \o IntToString(value)
    ELSE STR_ERR_SPEED

\* setWaveSpeed
SetWaveSpeed(value, printed) ==
  /\ waveSpeed' = NewWaveSpeed(value)
  /\ serialOut' = printed \o <<SpeedResponse(value)>>
  /\ btOut' = <<SpeedResponse(value)>>
  /\ writes' = <<>>
  /\ UNCHANGED <<currentMode, globalIntensity, currentWavePosition,
                 lastWaveUpdate, motorIntensities, pwm, waveUpdates>>

\* sendStatus: the switch on currentMode
ModeString(mode) ==
  CASE mode = "MODE_STOP" -> STR_STOP
    [] mode = "MODE_CONSTANT" -> STR_CONSTANT
    [] mode = "MODE_WAVE" -> STR_WAVE

\* Faulty variant of StatusLine: intensity and speed are reported swapped
StatusLineSwapped(mode, intensity, speed) ==
  STR_STATUS_MODE \o ModeString(mode) \o STR_C_INTENSITY \o IntToString(speed)
    \o STR_C_SPEED \o IntToString(intensity)

\* sendStatus: the status line
StatusLine(mode, intensity, speed) ==
  STR_STATUS_MODE \o ModeString(mode) \o STR_C_INTENSITY \o IntToString(intensity)
    \o STR_C_SPEED \o IntToString(speed)

\* sendStatus
SendStatus(printed) ==
  /\ serialOut' = printed \o <<StatusLine(currentMode, globalIntensity, waveSpeed)>>
  /\ btOut' = <<StatusLine(currentMode, globalIntensity, waveSpeed)>>
  /\ writes' = <<>>
  /\ UNCHANGED <<control, pwm, waveUpdates>>

\* Faulty variant of UnknownCommand: the error is printed on Serial only
UnknownCommandConsoleOnly(upper, printed) ==
  /\ serialOut' = printed \o <<STR_UNKNOWN \o upper>>
  /\ btOut' = <<>>
  /\ writes' = <<>>
  /\ UNCHANGED <<control, pwm, waveUpdates>>

\* processCommand: the final else branch
UnknownCommand(upper, printed) ==
  /\ serialOut' = printed \o <<STR_UNKNOWN \o upper>>
  /\ btOut' = <<STR_UNKNOWN \o upper>>
  /\ writes' = <<>>
  /\ UNCHANGED <<control, pwm, waveUpdates>>

\* processCommand
ProcessCommand(cmd, printed) ==
  LET upper == ToUpperCase(cmd) IN
    IF StartsWith(upper, STR_MODE) THEN SetMode(Substring(upper, 5), printed)
    ELSE IF StartsWith(upper, STR_INTENSITY)
      THEN SetIntensity(ToInt(Substring(upper, 10)), printed)
    ELSE IF StartsWith(upper, STR_SPEED)
      THEN SetWaveSpeed(ToInt(Substring(upper, 6)), printed)
    ELSE IF upper = STR_STATUS THEN SendStatus(printed)
    ELSE UnknownCommand(upper, printed)

\* A handler found nothing to process
NoCommand ==
  /\ writes' = <<>>
  /\ serialOut' = <<>>
  /\ btOut' = <<>>
  /\ UNCHANGED <<control, pwm, waveUpdates>>

\* The body shared by handleBluetoothInput and handleSerialInput once a line
\* is available: trim, drop an empty line, echo, processCommand
HandleLine(line, banner) ==
  /\ command' = Trim(line)
  /\ IF Len(Trim(line)) > 0
       THEN ProcessCommand(Trim(line), <<banner \o Trim(line)>>)
       ELSE NoCommand

\* Faulty variant of HandleBluetoothInput: while instead of if, the handler
\* runs again after a line
HandleBluetoothInputDrains ==
  /\ pc = "bluetooth"
  /\ \/ command' = <<>> /\ NoCommand /\ pc' = "serial"
     \/ \E line \in Lines : HandleLine(line, STR_BT_RECEIVED) /\ pc' = "bluetooth"
  /\ UNCHANGED <<clock, uptime, lastUpdateAt>>

\* handleBluetoothInput
HandleBluetoothInput ==
  /\ pc = "bluetooth"
  /\ pc' = "serial"
  /\ \/ command' = <<>> /\ NoCommand
     \/ \E line \in Lines : HandleLine(line, STR_BT_RECEIVED)
  /\ UNCHANGED <<clock, uptime, lastUpdateAt>>

\* handleSerialInput
HandleSerialInput ==
  /\ pc = "serial"
  /\ pc' = "pattern"
  /\ \/ command' = <<>> /\ NoCommand
     \/ \E line \in Lines : HandleLine(line, STR_SERIAL_RECEIVED)
  /\ UNCHANGED <<clock, uptime, lastUpdateAt>>

\* ------------------------------------------------------------------------
\* Pattern engine
\* ------------------------------------------------------------------------
\* Faulty variant of ConstantNeedsWrite: only channels below the intensity
ConstantNeedsWriteBelow(i) == motorIntensities[i] < globalIntensity

\* Faulty variant of ConstantNeedsWrite: no dirty check
ConstantAlwaysWrites(i) == TRUE

\* executeConstantPattern: the test that guards the write of channel i
ConstantNeedsWrite(i) == motorIntensities[i] # globalIntensity

\* executeConstantPattern
ExecuteConstantPattern ==
  /\ motorIntensities' =
       [i \in Channels |->
          IF ConstantNeedsWrite(i) THEN globalIntensity ELSE motorIntensities[i]]
  /\ pwm' = [i \in Channels |->
               IF ConstantNeedsWrite(i) THEN globalIntensity ELSE pwm[i]]
  /\ writes' =
       LET dirty == SelectSeq(ChannelOrder, ConstantNeedsWrite)
       IN  [k \in 1 .. Len(dirty) |-> <<dirty[k], globalIntensity>>]
  /\ serialOut' = <<>>
  /\ UNCHANGED <<currentMode, globalIntensity, waveSpeed, currentWavePosition,
                 lastWaveUpdate, lastUpdateAt, waveUpdates>>

\* Faulty variant of WaveDue: the difference taken in signed arithmetic
WaveDueSigned(currentTime) == (currentTime - lastWaveUpdate) >= waveSpeed

\* Faulty variant of WaveDue: strict comparison
WaveDueStrict(currentTime) ==
  ((currentTime - lastWaveUpdate) % ClockMod) > waveSpeed

\* executeWavePattern: the gate, in the unsigned arithmetic of the counter
WaveDue(currentTime) ==
  ((currentTime - lastWaveUpdate) % ClockMod) >= waveSpeed

\* Faulty variant of PhaseSteps: operands swapped
PhaseStepsReversed(i, position) == position - i

\* executeWavePattern: i - currentWavePosition, the eighths of a turn of phase
PhaseSteps(i, position) == i - position

\* sin(phase) as the float arithmetic of the source yields it for the phase
\* d / NUM_MOTORS * 2 * PI, in units of 1/FloatOne rounded down; sin of the
\* float nearest to pi is slightly below 0, sin of its negative slightly above
SinFixed(d) ==
  CASE d \in {0, -4} -> 0
    [] d = 4 -> -1
    [] d \in {1, 3, -5, -7} -> 741455
    [] d \in {2, -6} -> FloatOne
    [] d \in {-1, -3, 5, 7} -> -741456
    [] d \in {-2, 6} -> 0 - FloatOne

\* Faulty variant of WaveValue: the sine is not shifted into 0..1
WaveValueNoOffset(i, position) == SinFixed(i - position) \div 2

\* executeWavePattern: waveValue = (sin(phase) + 1) / 2, in units of 1/FloatOne
WaveValue(i, position) == (SinFixed(PhaseSteps(i, position)) + FloatOne) \div 2

\* Faulty variant of WaveIntensity: scales by one more than the intensity
WaveIntensityOverScaled(i, position, intensity) ==
  (WaveValue(i, position) * (intensity + 1)) \div FloatOne

\* executeWavePattern: intensity = (int)(waveValue * globalIntensity)
WaveIntensity(i, position, intensity) ==
  (WaveValue(i, position) * intensity) \div FloatOne

\* Faulty variant of NextWavePosition: wraps one channel early
NextWavePositionMod7(position) == (position + 1) % (NUM_MOTORS - 1)

\* executeWavePattern: the new wave position
NextWavePosition(position) == (position + 1) % NUM_MOTORS

RECURSIVE JoinIntensities(_, _)
\* executeWavePattern: the intensities of the debug line, each followed by " "
JoinIntensities(m, k) ==
  IF k > NUM_MOTORS THEN <<>>
  ELSE IntToString(m[ChannelOrder[k]]) \o <<" ">> \o JoinIntensities(m, k + 1)

\* executeWavePattern: the debug line
WaveDebugLine(position, m) ==
  STR_WAVE_POSITION \o IntToString(position) \o STR_INTENSITIES
    \o JoinIntensities(m, 1)

\* executeWavePattern
ExecuteWavePattern ==
  LET currentTime == clock IN
    IF WaveDue(currentTime) THEN
      /\ lastWaveUpdate' = currentTime
      /\ lastUpdateAt' = uptime
      /\ motorIntensities' =
           [i \in Channels |->
              WaveIntensity(i, currentWavePosition, globalIntensity)]
      /\ pwm' = motorIntensities'
      /\ writes' = [k \in 1 .. NUM_MOTORS |->
                      <<ChannelOrder[k], motorIntensities'[ChannelOrder[k]]>>]
      /\ currentWavePosition' = NextWavePosition(currentWavePosition)
      /\ waveUpdates' = waveUpdates + 1
      /\ serialOut' = <<WaveDebugLine(currentWavePosition', motorIntensities')>>
      /\ UNCHANGED <<currentMode, globalIntensity, waveSpeed>>
    ELSE
      /\ writes' = <<>>
      /\ serialOut' = <<>>
      /\ UNCHANGED <<control, pwm, lastUpdateAt, waveUpdates>>

\* Faulty variant of ExecutePattern: case MODE_STOP falls through to the
\* constant pattern
ExecutePatternFallThrough ==
  /\ pc = "pattern"
  /\ pc' = "bluetooth"
  /\ command' = <<>>
  /\ btOut' = <<>>
  /\ CASE currentMode \in {"MODE_STOP", "MODE_CONSTANT"} -> ExecuteConstantPattern
       [] currentMode = "MODE_WAVE" -> ExecuteWavePattern
  /\ UNCHANGED <<clock, uptime>>

\* executePattern
ExecutePattern ==
  /\ pc = "pattern"
  /\ pc' = "bluetooth"
  /\ command' = <<>>
  /\ btOut' = <<>>
  /\ CASE currentMode = "MODE_STOP" ->
            /\ writes' = <<>>
            /\ serialOut' = <<>>
            /\ UNCHANGED <<control, pwm, lastUpdateAt, waveUpdates>>
       [] currentMode = "MODE_CONSTANT" -> ExecuteConstantPattern
       [] currentMode = "MODE_WAVE" -> ExecuteWavePattern
  /\ UNCHANGED <<clock, uptime>>

\* millis() advances while the loop runs; the program reads it only in
\* executeWavePattern, so the time an iteration took is added before that step
Elapse ==
  \E dt \in TimeSteps :
    /\ pc = "pattern"
    /\ uptime + dt <= MaxElapses * TimeStep
    /\ uptime' = uptime + dt
    /\ clock' = (clock + dt) % ClockMod
    /\ UNCHANGED <<pc, control, pwm, lastUpdateAt, waveUpdates, command,
                   writes, serialOut, btOut>>

Next ==
  \/ HandleBluetoothInput
  \/ HandleSerialInput
  \/ ExecutePattern
  \/ Elapse

Spec == Init /\ [][Next]_vars

\* The program left Stopped and idle since startup until millis() is two and
\* a half time steps short of wrapping to 0; uptime counts from this state
InitWrap ==
  /\ pc = "bluetooth"
  /\ currentMode = "MODE_STOP"
  /\ globalIntensity = 128
  /\ waveSpeed = 100
  /\ currentWavePosition = 0
  /\ lastWaveUpdate = 0
  /\ motorIntensities = [i \in Channels |-> 0]
  /\ pwm = [i \in Channels |-> 0]
  /\ clock = ClockMod - 2 * TimeStep - (TimeStep \div 2)
  /\ uptime = 0
  /\ lastUpdateAt = -1
  /\ waveUpdates = 0
  /\ command = <<>>
  /\ writes = <<>>
  /\ serialOut = <<>>
  /\ btOut = <<>>

SpecWrap == InitWrap /\ [][Next]_vars

TypeOK ==
  /\ pc \in {"bluetooth", "serial", "pattern"}
  /\ currentMode \in {"MODE_STOP", "MODE_CONSTANT", "MODE_WAVE"}
  /\ motorIntensities \in [Channels -> Int]
  /\ pwm \in [Channels -> Int]
  /\ clock \in 0 .. (ClockMod - 1)

\* ------------------------------------------------------------------------
\* Vocabulary of the properties
\* ------------------------------------------------------------------------
\* A step of handleBluetoothInput or handleSerialInput
HandlerStep == pc \in {"bluetooth", "serial"} /\ pc' # pc

\* A step of executePattern
PatternStep == pc = "pattern" /\ pc' = "bluetooth"

\* The latest step was a handler's, and command is the line it read
AfterHandler == pc \in {"serial", "pattern"}

\* The latest step was executePattern performing a wave update
WaveJustUpdated ==
  pc = "bluetooth" /\ currentMode = "MODE_WAVE" /\ writes # <<>>

\* The step is a handler's and processes the command upper
Processes(upper) == HandlerStep /\ ToUpperCase(command') = upper

\* The step touches neither the control state nor the PWM outputs
Untouched == control' = control /\ pwm' = pwm /\ writes' = <<>>

\* The single response line, printed last on Serial and alone on SerialBT
RespondsWith(line) ==
  /\ btOut' = <<line>>
  /\ serialOut' # <<>>
  /\ serialOut'[Len(serialOut')] = line

\* The text of a line that follows the first occurrence of marker
RECURSIVE AfterMarker(_, _)
AfterMarker(s, marker) ==
  IF s = <<>> THEN <<>>
  ELSE IF StartsWith(s, marker) THEN Substring(s, Len(marker))
  ELSE AfterMarker(Tail(s), marker)

\* The text of the commands INTENSITY:n and SPEED:n
IntensityLine == [n \in IntensityArgs |-> STR_INTENSITY \o IntToString(n)]
SpeedLine == [n \in SpeedArgs |-> STR_SPEED \o IntToString(n)]
OkIntensity == [n \in IntensityArgs |-> STR_OK_INTENSITY \o IntToString(n)]
OkSpeed == [n \in SpeedArgs |-> STR_OK_SPEED \o IntToString(n)]

LineModeStop == STR_MODE \o STR_STOP
LineModeWave == STR_MODE \o STR_WAVE
LineModeFoo == STR_MODE \o <<"F","O","O">>
LineFoo1 == <<"F","O","O",":","1">>
STR_ERROR == <<"E","R","R","O","R">>

\* ------------------------------------------------------------------------
\* C1
\* ------------------------------------------------------------------------
\* C1: once MODE:STOP has been processed, from whatever state, the mode is
\* Stopped, every motorIntensities[i] is 0, and the step has written duty 0
\* to each of the 8 channels (and nothing else), so every output is at 0.
C1_StopZeroesEveryChannel ==
  (AfterHandler /\ ToUpperCase(command) = LineModeStop) =>
    /\ currentMode = "MODE_STOP"
    /\ \A i \in Channels :
         /\ motorIntensities[i] = 0
         /\ pwm[i] = 0
         /\ \E k \in 1 .. Len(writes) : writes[k] = <<i, 0>>
    /\ \A k \in 1 .. Len(writes) : writes[k][2] = 0

\* MODE:STOP processed by the console handler after at least one wave update
C1_Witness ==
  /\ pc = "pattern"
  /\ command = LineModeStop
  /\ Len(writes) = NUM_MOTORS
  /\ lastUpdateAt >= 0
  /\ currentMode = "MODE_STOP"

\* ------------------------------------------------------------------------
\* C2
\* ------------------------------------------------------------------------
\* C2: INTENSITY:n is answered OK:INTENSITY:n and sets globalIntensity to n
\* exactly when 0 <= n <= 255; otherwise it is answered
\* ERROR:INTENSITY_OUT_OF_RANGE and globalIntensity keeps its value.  Only an
\* INTENSITY command changes globalIntensity, and STATUS reports its current
\* value, so a STATUS before any other INTENSITY command reports n.
C2_IntensityRange ==
  [][ /\ \A n \in IntensityArgs :
           (HandlerStep /\ command' = IntensityLine[n]) =>
             IF 0 <= n /\ n <= 255
               THEN /\ globalIntensity' = n
                    /\ RespondsWith(OkIntensity[n])
               ELSE /\ globalIntensity' = globalIntensity
                    /\ RespondsWith(STR_ERR_INTENSITY)
      /\ (globalIntensity' # globalIntensity) =>
           /\ HandlerStep
           /\ StartsWith(ToUpperCase(command'), STR_INTENSITY)
      /\ Processes(STR_STATUS) =>
           /\ btOut' # <<>>
           /\ AfterMarker(btOut'[1], STR_C_INTENSITY)
                = IntToString(globalIntensity) \o STR_C_SPEED
                    \o AfterMarker(btOut'[1], STR_C_SPEED)
           /\ globalIntensity' = globalIntensity
    ]_vars

\* STATUS answered while globalIntensity is an accepted 255
C2_Witness ==
  /\ AfterHandler
  /\ ToUpperCase(command) = STR_STATUS
  /\ globalIntensity = 255
  /\ btOut # <<>>
  /\ ToInt(AfterMarker(btOut[1], STR_C_INTENSITY)) = 255

\* ------------------------------------------------------------------------
\* C3
\* ------------------------------------------------------------------------
\* C3: SPEED:n is answered OK:SPEED:n and sets waveSpeed to n exactly when
\* 50 <= n <= 500; otherwise it is answered ERROR:SPEED_OUT_OF_RANGE and
\* waveSpeed keeps its value.
C3_SpeedRange ==
  [][ \A n \in SpeedArgs :
        (HandlerStep /\ command' = SpeedLine[n]) =>
          IF 50 <= n /\ n <= 500
            THEN /\ waveSpeed' = n
                 /\ RespondsWith(OkSpeed[n])
            ELSE /\ waveSpeed' = waveSpeed
                 /\ RespondsWith(STR_ERR_SPEED)
    ]_vars

\* SPEED:500 accepted while the speed was something else
C3_Witness ==
  /\ AfterHandler
  /\ command = SpeedLine[500]
  /\ waveSpeed = 500
  /\ btOut = <<OkSpeed[500]>>

\* ------------------------------------------------------------------------
\* C4
\* ------------------------------------------------------------------------
\* A step of executePattern that performs a wave update
WaveUpdateStep == PatternStep /\ currentMode = "MODE_WAVE" /\ writes' # <<>>

\* The largest and the smallest duty of the channels after the step
IsMaxDuty(i) == \A j \in Channels : motorIntensities'[j] <= motorIntensities'[i]
IsMinDuty(i) == \A j \in Channels : motorIntensities'[j] >= motorIntensities'[i]

\* C4 as stated: on every wave update the channel whose index is the wave
\* position used by the update receives the largest duty, globalIntensity.
C4_PeakAtWavePosition ==
  [][ WaveUpdateStep =>
        /\ IsMaxDuty(currentWavePosition)
        /\ motorIntensities'[currentWavePosition] = globalIntensity
    ]_vars

\* C4 amended: on every wave update the largest duty, globalIntensity
\* (normalized = 1), goes to the channel a quarter turn ahead of the wave
\* position used, (wavePosition + 2) mod 8; the channel at wavePosition itself
\* is at normalized = 1/2 and receives globalIntensity / 2 rounded down.
C4_PeakQuarterTurnAhead ==
  [][ WaveUpdateStep =>
        /\ IsMaxDuty((currentWavePosition + 2) % NUM_MOTORS)
        /\ motorIntensities'[(currentWavePosition + 2) % NUM_MOTORS] = globalIntensity
        /\ pwm'[(currentWavePosition + 2) % NUM_MOTORS] = globalIntensity
        /\ motorIntensities'[currentWavePosition] = globalIntensity \div 2
    ]_vars

\* A wave update at intensity 255 that used wave position 3: the peak is on
\* channel 5, channel 3 is at half intensity
C4_Witness ==
  /\ WaveJustUpdated
  /\ currentWavePosition = 4
  /\ globalIntensity = 255
  /\ motorIntensities[5] = 255
  /\ motorIntensities[3] = 127

\* ------------------------------------------------------------------------
\* C5
\* ------------------------------------------------------------------------
\* C5 as stated: on every wave update the channel at (wavePosition + 4) mod 8
\* receives the smallest duty, 0.
C5_TroughOppositeWavePosition ==
  [][ WaveUpdateStep =>
        /\ IsMinDuty((currentWavePosition + 4) % NUM_MOTORS)
        /\ motorIntensities'[(currentWavePosition + 4) % NUM_MOTORS] = 0
    ]_vars

\* C5 amended: on every wave update the smallest duty, 0 (normalized = 0),
\* goes to the channel at (wavePosition + 6) mod 8, opposite the peak.
C5_TroughOppositePeak ==
  [][ WaveUpdateStep =>
        /\ IsMinDuty((currentWavePosition + 6) % NUM_MOTORS)
        /\ motorIntensities'[(currentWavePosition + 6) % NUM_MOTORS] = 0
        /\ pwm'[(currentWavePosition + 6) % NUM_MOTORS] = 0
    ]_vars

\* A wave update at the default intensity 128 that used wave position 0: the
\* trough is on channel 6 while channel 4 is near half intensity
C5_Witness ==
  /\ WaveJustUpdated
  /\ currentWavePosition = 1
  /\ globalIntensity = 128
  /\ motorIntensities[6] = 0
  /\ motorIntensities[4] = 63
  /\ motorIntensities[2] = 128

\* ------------------------------------------------------------------------
\* C6
\* ------------------------------------------------------------------------
\* C6: in Wave mode a pattern tick at clock value now changes nothing and
\* writes nothing while now - lastWaveUpdate < waveSpeed; otherwise it does
\* one wave update: lastWaveUpdate becomes now, every channel is written
\* once with its new duty, the wave position advances by one.  Two
\* consecutive wave updates are therefore at least waveSpeed apart, the
\* waveSpeed being the one in force at the later update, whatever commands
\* came in between.
C6_WaveGate ==
  [][ (PatternStep /\ currentMode = "MODE_WAVE") =>
        IF clock - lastWaveUpdate < waveSpeed
          THEN Untouched /\ serialOut' = <<>>
          ELSE /\ lastWaveUpdate' = clock
               /\ Len(writes') = NUM_MOTORS
               /\ \A i \in Channels :
                    \E k \in 1 .. NUM_MOTORS :
                      writes'[k] = <<i, motorIntensities'[i]>>
               /\ currentWavePosition' = (currentWavePosition + 1) % NUM_MOTORS
               /\ lastUpdateAt' = uptime
               /\ (lastUpdateAt >= 0 => uptime - lastUpdateAt >= waveSpeed)
               /\ UNCHANGED <<currentMode, globalIntensity, waveSpeed>>
    ]_vars

\* A wave update at speed 100 made exactly 100 ms after the previous one,
\* which was already the second since MODE:WAVE
C6_Witness ==
  /\ WaveJustUpdated
  /\ waveSpeed = 100
  /\ waveUpdates = 3
  /\ lastWaveUpdate = clock
  /\ lastUpdateAt = uptime

\* ------------------------------------------------------------------------
\* C7
\* ------------------------------------------------------------------------
\* C7: MODE:WAVE, from whatever state, sets the wave position to 0 and the
\* mode to Wave, leaves motorIntensities and lastWaveUpdate as they were and
\* writes nothing to the PWM outputs.
C7_ModeWaveResetsPosition ==
  [][ Processes(LineModeWave) =>
        /\ currentWavePosition' = 0
        /\ currentMode' = "MODE_WAVE"
        /\ motorIntensities' = motorIntensities
        /\ lastWaveUpdate' = lastWaveUpdate
        /\ writes' = <<>>
        /\ pwm' = pwm
    ]_vars

\* MODE:WAVE processed while the channels still hold the wave computed with
\* wave position 1 (peak on channel 3), i.e. when the position was not 0
C7_Witness ==
  /\ AfterHandler
  /\ command = LineModeWave
  /\ currentMode = "MODE_WAVE"
  /\ currentWavePosition = 0
  /\ globalIntensity = 255
  /\ motorIntensities[3] = 255
  /\ motorIntensities[7] = 0

\* ------------------------------------------------------------------------
\* C8
\* ------------------------------------------------------------------------
\* The channels named by the ledcWrite calls of the step
WrittenChannels == {writes'[k][1] : k \in 1 .. Len(writes')}

\* C8: in Constant mode a pattern tick leaves every motorIntensities[i] equal
\* to globalIntensity and writes globalIntensity to exactly the channels
\* whose value differed from it, once each; a tick that finds every channel
\* already at globalIntensity writes nothing.
C8_ConstantWritesOnlyChanges ==
  [][ (PatternStep /\ currentMode = "MODE_CONSTANT") =>
        /\ \A i \in Channels : motorIntensities'[i] = globalIntensity
        /\ \A i \in Channels : pwm'[i] = globalIntensity
        /\ WrittenChannels =
             {i \in Channels : motorIntensities[i] # globalIntensity}
        /\ Len(writes') = Cardinality(WrittenChannels)
        /\ \A k \in 1 .. Len(writes') : writes'[k][2] = globalIntensity
        /\ ((\A i \in Channels : motorIntensities[i] = globalIntensity)
              => writes' = <<>>)
    ]_vars

\* A Constant tick that wrote seven channels: the eighth already held
\* globalIntensity (the peak of an earlier wave)
C8_Witness ==
  /\ pc = "bluetooth"
  /\ currentMode = "MODE_CONSTANT"
  /\ Len(writes) = NUM_MOTORS - 1
  /\ \A i \in Channels : motorIntensities[i] = globalIntensity

\* ------------------------------------------------------------------------
\* C9
\* ------------------------------------------------------------------------
\* C9: waveUpdates counts the wave updates since the latest accepted
\* MODE:WAVE.  While the mode is Wave the wave position is waveUpdates mod 8,
\* and the update that made the count k computed every duty with wave
\* position (k - 1) mod 8 (the first one with phase 2*pi*(i - 0)/8).
C9_WavePositionCycles ==
  /\ (currentMode = "MODE_WAVE") =>
       currentWavePosition = waveUpdates % NUM_MOTORS
  /\ WaveJustUpdated =>
       /\ waveUpdates >= 1
       /\ motorIntensities =
            [i \in Channels |->
               WaveIntensity(i, (waveUpdates - 1) % NUM_MOTORS, globalIntensity)]

\* The eighth wave update since MODE:WAVE brought the position back to 0
C9_Witness ==
  /\ WaveJustUpdated
  /\ waveUpdates = NUM_MOTORS
  /\ currentWavePosition = 0
  /\ globalIntensity = 255
  /\ motorIntensities[1] = 255

\* ------------------------------------------------------------------------
\* C10
\* ------------------------------------------------------------------------
\* The response of the step is an error line
ErrorResponse == btOut' # <<>> /\ StartsWith(btOut'[1], STR_ERROR)

\* C10: a command answered with an error changes no field of the control
\* state and writes nothing to the PWM outputs.  FOO:1 is answered
\* "ERROR: Unknown command - FOO:1", MODE:FOO with ERROR:INVALID_MODE, an
\* out-of-range INTENSITY or SPEED with its range error; the loop goes on to
\* its next step afterwards.
C10_ErrorsChangeNothing ==
  [][ HandlerStep =>
        LET upper == ToUpperCase(command') IN
          /\ ErrorResponse => (Untouched /\ pc' \in {"serial", "pattern"})
          /\ (upper = LineFoo1) =>
               (ErrorResponse /\ RespondsWith(STR_UNKNOWN \o LineFoo1))
          /\ (upper = LineModeFoo) =>
               (ErrorResponse /\ RespondsWith(STR_INVALID_MODE))
          /\ (\E n \in {m \in IntensityArgs : m < 0 \/ m > 255} :
                upper = IntensityLine[n]) =>
               RespondsWith(STR_ERR_INTENSITY)
          /\ (\E n \in {m \in SpeedArgs : m < 50 \/ m > 500} :
                upper = SpeedLine[n]) =>
               RespondsWith(STR_ERR_SPEED)
    ]_vars

\* INTENSITY:256 rejected by the console handler in Wave mode in the same
\* iteration in which the wireless handler had INTENSITY:255 accepted
C10_Witness ==
  /\ pc = "pattern"
  /\ command = IntensityLine[256]
  /\ btOut = <<STR_ERR_INTENSITY>>
  /\ currentMode = "MODE_WAVE"
  /\ globalIntensity = 255
  /\ \E i \in Channels : motorIntensities[i] # 0

\* ------------------------------------------------------------------------
\* C11
\* ------------------------------------------------------------------------
\* The step is a handler's that passed a non-empty line to processCommand
DispatchStep == HandlerStep /\ command' # <<>>

\* The lines processCommand printed on Serial: all but the handler's echo
ConsoleLines == Tail(serialOut')

\* C11 as stated: every call of processCommand on a non-empty line prints
\* exactly one line, the same on Serial and on SerialBT.
C11_OneLineOnBothTransports ==
  [][ DispatchStep => (Len(btOut') = 1 /\ ConsoleLines = btOut') ]_vars

\* C11 amended: every call of processCommand on a non-empty line prints
\* exactly one response line on SerialBT, and the same line last on Serial.
\* For every command but MODE:STOP the lines printed on Serial are that one
\* line; for MODE:STOP Serial first receives "All motors stopped", which
\* SerialBT does not.
C11_OneResponsePlusStopNotice ==
  [][ DispatchStep =>
        /\ Len(btOut') = 1
        /\ IF ToUpperCase(command') = LineModeStop
             THEN ConsoleLines = <<STR_ALL_STOPPED>> \o btOut'
             ELSE ConsoleLines = btOut'
    ]_vars

\* MODE:STOP processed: echo, notice and response on Serial, the response
\* alone on SerialBT
C11_Witness ==
  /\ AfterHandler
  /\ command = LineModeStop
  /\ Len(serialOut) = 3
  /\ btOut = <<STR_OK_MODE_STOP>>
  /\ serialOut[2] = STR_ALL_STOPPED
  /\ serialOut[3] = STR_OK_MODE_STOP

\* ------------------------------------------------------------------------
\* C12
\* ------------------------------------------------------------------------
\* The values STATUS reports
Reported == <<currentMode, globalIntensity, waveSpeed>>

\* The accepted MODE, INTENSITY and SPEED commands of the inputs, each with
\* the value of its argument; a non-numeric argument counts as 0
AcceptedModes ==
  { <<STR_MODE \o STR_STOP, "MODE_STOP">>,
    <<STR_MODE \o STR_CONSTANT, "MODE_CONSTANT">>,
    <<STR_MODE \o STR_WAVE, "MODE_WAVE">> }
AcceptedIntensities ==
  { <<IntensityLine[n], n>> : n \in {m \in IntensityArgs : m >= 0 /\ m <= 255} }
    \cup { <<STR_INTENSITY \o NonNumeric, 0>> }
AcceptedSpeeds ==
  { <<SpeedLine[n], n>> : n \in {m \in SpeedArgs : m >= 50 /\ m <= 500} }

\* The value a command sets, or old when the table does not hold the command
ValueAfter(table, upper, old) ==
  IF \E p \in table : p[1] = upper
    THEN (CHOOSE p \in table : p[1] = upper)[2]
    ELSE old

\* The status line spelled out for the values the inputs can set
ModeName ==
  [m \in {"MODE_STOP", "MODE_CONSTANT", "MODE_WAVE"} |->
     CASE m = "MODE_STOP" -> <<"S","T","O","P">>
       [] m = "MODE_CONSTANT" -> <<"C","O","N","S","T","A","N","T">>
       [] m = "MODE_WAVE" -> <<"W","A","V","E">>]
StatusText ==
  [r \in {"MODE_STOP", "MODE_CONSTANT", "MODE_WAVE"}
           \X ({128} \cup {p[2] : p \in AcceptedIntensities})
           \X ({100} \cup {p[2] : p \in AcceptedSpeeds}) |->
     STR_STATUS \o <<":">> \o STR_MODE \o ModeName[r[1]]
       \o <<",">> \o STR_INTENSITY \o IntToString(r[2])
       \o <<",">> \o STR_SPEED \o IntToString(r[3])]

\* C12: the reported values start as STOP, 128 and 100; an accepted MODE,
\* INTENSITY or SPEED command sets the one it names to its argument and
\* nothing else changes any of them, a pattern tick included; so they are
\* always the arguments of the most recent accepted commands, or the
\* defaults.  STATUS changes no field of the control state, writes nothing
\* to the PWM outputs, and answers
\* STATUS:MODE:<mode>,INTENSITY:<n>,SPEED:<n> with these values.
C12_StatusReportsAccepted ==
  /\ Reported = <<"MODE_STOP", 128, 100>>
  /\ [][ IF HandlerStep
           THEN LET upper == ToUpperCase(command')
                IN /\ currentMode' = ValueAfter(AcceptedModes, upper, currentMode)
                   /\ globalIntensity' =
                        ValueAfter(AcceptedIntensities, upper, globalIntensity)
                   /\ waveSpeed' = ValueAfter(AcceptedSpeeds, upper, waveSpeed)
                   /\ upper = STR_STATUS =>
                        /\ Untouched
                        /\ RespondsWith(StatusText[Reported])
           ELSE Reported' = Reported
       ]_vars

\* STATUS answered after MODE:WAVE, INTENSITY:255 and SPEED:500 were
\* accepted and the wave pattern has run
C12_Witness ==
  /\ AfterHandler
  /\ ToUpperCase(command) = STR_STATUS
  /\ waveUpdates > 0
  /\ Reported = <<"MODE_WAVE", 255, 500>>
  /\ btOut = <<StatusText[Reported]>>
  /\ writes = <<>>

\* ------------------------------------------------------------------------
\* C13
\* ------------------------------------------------------------------------
\* C13: in every reachable state globalIntensity is in 0..255, waveSpeed in
\* 50..500, currentWavePosition in 0..7, every motorIntensities[i] in
\* 0..255, and every ledcWrite of the latest step names a channel in 0..7
\* and a duty in 0..255.
C13_ValuesInRange ==
  /\ globalIntensity >= 0 /\ globalIntensity <= 255
  /\ waveSpeed >= 50 /\ waveSpeed <= 500
  /\ currentWavePosition >= 0 /\ currentWavePosition < NUM_MOTORS
  /\ \A i \in Channels : motorIntensities[i] >= 0 /\ motorIntensities[i] <= 255
  /\ \A k \in 1 .. Len(writes) :
       /\ writes[k][1] >= 0 /\ writes[k][1] <= NUM_MOTORS - 1
       /\ writes[k][2] >= 0 /\ writes[k][2] <= 255

\* A wave update at the limits: intensity 255, speed 50, the position moved
\* to 7 after out-of-range commands were refused; duties 255 and 0 written
C13_Witness ==
  /\ WaveJustUpdated
  /\ globalIntensity = 255
  /\ waveSpeed = 50
  /\ currentWavePosition = NUM_MOTORS - 1
  /\ Len(writes) = NUM_MOTORS
  /\ \E k \in 1 .. Len(writes) : writes[k][2] = 255
  /\ \E k \in 1 .. Len(writes) : writes[k][2] = 0

\* ------------------------------------------------------------------------
\* C14
\* ------------------------------------------------------------------------
\* INTENSITY: and SPEED: followed by a token that is not a number
LineIntensityNonNumeric == STR_INTENSITY \o NonNumeric
LineSpeedNonNumeric == STR_SPEED \o NonNumeric
STR_OK_INTENSITY_0 == <<"O","K",":","I","N","T","E","N","S","I","T","Y",":","0">>

\* C14: a non-numeric argument counts as 0 and goes through the range check
\* of its command.  INTENSITY:ABC sets globalIntensity to 0, changes nothing
\* else and is answered OK:INTENSITY:0; SPEED:ABC is answered
\* ERROR:SPEED_OUT_OF_RANGE and changes neither waveSpeed nor anything else.
C14_NonNumericIsZero ==
  [][ /\ (HandlerStep /\ command' = LineIntensityNonNumeric) =>
           /\ globalIntensity' = 0
           /\ RespondsWith(STR_OK_INTENSITY_0)
           /\ UNCHANGED <<currentMode, waveSpeed, currentWavePosition,
                          lastWaveUpdate, motorIntensities, pwm>>
           /\ writes' = <<>>
      /\ (HandlerStep /\ command' = LineSpeedNonNumeric) =>
           /\ waveSpeed' = waveSpeed
           /\ RespondsWith(STR_ERR_SPEED)
           /\ Untouched
    ]_vars

\* INTENSITY:ABC accepted: the intensity is 0 while the outputs still carry
\* the 255 of the constant pattern
C14_Witness ==
  /\ AfterHandler
  /\ command = LineIntensityNonNumeric
  /\ globalIntensity = 0
  /\ btOut = <<STR_OK_INTENSITY_0>>
  /\ currentMode = "MODE_CONSTANT"
  /\ \A i \in Channels : pwm[i] = 255

\* ------------------------------------------------------------------------
\* C15
\* ------------------------------------------------------------------------
\* The duty of the last write to channel i among the writes w, or old when
\* w has no write to channel i
LastWritten(w, i, old) ==
  LET ks == {k \in 1 .. Len(w) : w[k][1] = i}
  IN  IF ks = {} THEN old
      ELSE w[CHOOSE k \in ks : \A j \in ks : j <= k][2]

\* The step is one of the program's, not the passing of time
ProgramStep == pc' # pc

\* C15: motorIntensities[i] is the duty most recently written to PWM channel
\* i.  It is so after setup; every step of the program leaves in
\* motorIntensities[i], and on the channel, the duty of its last ledcWrite
\* to channel i, and leaves both alone when it has no such write; the
\* passing of time changes neither.
C15_MirrorsLastWrite ==
  /\ \A i \in Channels : motorIntensities[i] = pwm[i]
  /\ [][ IF ProgramStep
           THEN \A i \in Channels :
                  /\ motorIntensities'[i]
                       = LastWritten(writes', i, motorIntensities[i])
                  /\ pwm'[i] = LastWritten(writes', i, pwm[i])
           ELSE motorIntensities' = motorIntensities /\ pwm' = pwm
       ]_vars

\* A constant pattern at 255, then a STOP: the channels read 0 as written,
\* one write per channel
C15_Witness ==
  /\ AfterHandler
  /\ command = LineModeStop
  /\ globalIntensity = 255
  /\ Len(writes) = NUM_MOTORS
  /\ \A i \in Channels :
       /\ motorIntensities[i] = LastWritten(writes, i, 255)
       /\ pwm[i] = 0
  /\ waveUpdates > 0

\* ------------------------------------------------------------------------
\* C16
\* ------------------------------------------------------------------------
\* Every channel is at 0, in motorIntensities and on the PWM output
AllOff == \A i \in Channels : motorIntensities[i] = 0 /\ pwm[i] = 0

\* C16: the program starts Stopped with every channel at 0.  Every step that
\* ends in mode Stopped, the accepted MODE:STOP and every command or tick
\* after it until another mode is accepted, ends with every
\* motorIntensities[i] and every PWM output at 0 and has written no duty but
\* 0; a pattern tick in mode Stopped changes nothing and writes nothing.
C16_StoppedMeansOff ==
  /\ currentMode = "MODE_STOP" /\ AllOff
  /\ [][ /\ currentMode' = "MODE_STOP" =>
              /\ AllOff'
              /\ \A k \in 1 .. Len(writes') : writes'[k][2] = 0
         /\ (PatternStep /\ currentMode = "MODE_STOP") => Untouched
       ]_vars

\* A pattern tick in mode Stopped, at intensity 255 and after the wave
\* pattern had driven the channels
C16_Witness ==
  /\ pc = "bluetooth"
  /\ uptime > 0
  /\ currentMode = "MODE_STOP"
  /\ globalIntensity = 255
  /\ lastUpdateAt >= 0
  /\ writes = <<>>
  /\ AllOff

\* ------------------------------------------------------------------------
\* C17
\* ------------------------------------------------------------------------
LineModeConstant == STR_MODE \o STR_CONSTANT

\* C17: MODE:CONSTANT is answered OK:MODE:CONSTANT and changes currentMode
\* alone: no motorIntensities[i], no PWM output, neither the wave position
\* nor lastWaveUpdate, and it writes nothing.  Every pattern tick in mode
\* Constant ends with every motorIntensities[i] and every PWM output equal
\* to the globalIntensity of that tick, whatever they held; an INTENSITY:n
\* accepted in mode Constant sets that globalIntensity to n and keeps the
\* mode, so the tick that follows it makes every channel n.
C17_ConstantConverges ==
  [][ /\ Processes(LineModeConstant) =>
           /\ currentMode' = "MODE_CONSTANT"
           /\ RespondsWith(STR_OK_MODE_CONSTANT)
           /\ writes' = <<>>
           /\ UNCHANGED <<globalIntensity, waveSpeed, currentWavePosition,
                          lastWaveUpdate, motorIntensities, pwm>>
      /\ (PatternStep /\ currentMode = "MODE_CONSTANT") =>
           /\ \A i \in Channels :
                motorIntensities'[i] = globalIntensity /\ pwm'[i] = globalIntensity
           /\ UNCHANGED <<currentMode, globalIntensity>>
      /\ \A n \in {m \in IntensityArgs : m >= 0 /\ m <= 255} :
           (HandlerStep /\ currentMode = "MODE_CONSTANT"
              /\ command' = IntensityLine[n]) =>
             (globalIntensity' = n /\ currentMode' = "MODE_CONSTANT")
    ]_vars

\* Mode Constant entered over stale wave values, intensity lowered to 0: the
\* tick wrote 0 to the channels that were not at 0, and all are at 0
C17_Witness ==
  /\ pc = "bluetooth"
  /\ currentMode = "MODE_CONSTANT"
  /\ globalIntensity = 0
  /\ lastUpdateAt >= 0
  /\ writes # <<>>
  /\ Len(writes) < NUM_MOTORS
  /\ \A i \in Channels : motorIntensities[i] = 0 /\ pwm[i] = 0

\* ------------------------------------------------------------------------
\* C18
\* ------------------------------------------------------------------------
\* The order of the steps of loop(), and the banner of each handler's echo
LoopOrder ==
  { <<"bluetooth", "serial">>, <<"serial", "pattern">>,
    <<"pattern", "bluetooth">> }
Banner ==
  [h \in {"bluetooth", "serial"} |->
     IF h = "bluetooth"
       THEN <<"B","T"," ","R","e","c","e","i","v","e","d",":"," ">>
       ELSE <<"S","e","r","i","a","l"," ","R","e","c","e","i","v","e","d",":"," ">>]

\* The number of lines of out that start with banner
EchoCount(out, banner) ==
  Cardinality({k \in 1 .. Len(out) : StartsWith(out[k], banner)})

\* C18: the steps of the program follow each other as handleBluetoothInput,
\* handleSerialInput, executePattern, and again.  A handler is never kept
\* waiting: with no line it passes on and changes nothing.  A handler step
\* takes at most one line, echoed once under its own transport's banner, and
\* gives at most one response; executePattern takes none.  Between two steps
\* only the time changes, so each step starts from the state the one before
\* it has completed: the tick that follows a console MODE:STOP writes
\* nothing, and the mode the tick runs in is that of the console's MODE
\* command whatever the wireless command of the iteration was.
C18_LoopOrder ==
  /\ [](pc \in {"bluetooth", "serial"} =>
          ENABLED (command' = <<>> /\ Next /\ pc' # pc /\ Untouched))
  /\ [][ IF pc' # pc
           THEN /\ <<pc, pc'>> \in LoopOrder
                /\ Len(btOut') <= 1
                /\ IF HandlerStep
                     THEN /\ EchoCount(serialOut', Banner[pc])
                               = (IF command' = <<>> THEN 0 ELSE 1)
                          /\ \A h \in {"bluetooth", "serial"} \ {pc} :
                               EchoCount(serialOut', Banner[h]) = 0
                          /\ command' = <<>> => (Untouched /\ btOut' = <<>>)
                          /\ pc = "serial" =>
                               currentMode' = ValueAfter(AcceptedModes,
                                                ToUpperCase(command'), currentMode)
                     ELSE /\ command' = <<>>
                          /\ currentMode' = currentMode
                          /\ ToUpperCase(command) = LineModeStop => Untouched
           ELSE UNCHANGED <<control, pwm, command, writes, serialOut, btOut>>
       ]_vars

\* The console's MODE:CONSTANT was processed after a wave and a stop, at
\* intensity 255; executePattern is next and will find mode Constant
C18_Witness ==
  /\ pc = "pattern"
  /\ command = LineModeConstant
  /\ serialOut = <<Banner["serial"] \o LineModeConstant, STR_OK_MODE_CONSTANT>>
  /\ currentMode = "MODE_CONSTANT"
  /\ globalIntensity = 255
  /\ lastUpdateAt >= 0
  /\ AllOff

\* ------------------------------------------------------------------------
\* C19
\* ------------------------------------------------------------------------
\* The time that has truly passed since the latest wave update
TrueElapsed == uptime - lastUpdateAt

\* The step is executePattern performing a wave update at the present time
WaveUpdatesNow ==
  /\ waveUpdates' = waveUpdates + 1
  /\ lastUpdateAt' = uptime
  /\ lastWaveUpdate' = clock
  /\ Len(writes') = NUM_MOTORS

\* C19: with millis() a counter of ClockWidth bits that wraps to 0, a
\* pattern tick in mode Wave that comes less than 2^ClockWidth ms after the
\* latest wave update performs an update exactly when at least waveSpeed ms
\* have truly passed since that update, whether or not the counter has
\* wrapped in between; otherwise it changes nothing.
C19_GateSurvivesWrap ==
  [][ (PatternStep /\ currentMode = "MODE_WAVE" /\ lastUpdateAt >= 0
         /\ TrueElapsed < ClockMod) =>
        IF TrueElapsed >= waveSpeed THEN WaveUpdatesNow ELSE Untouched
    ]_vars

\* A wave update just after the counter wrapped, one time step after the
\* update before it, which read the counter before the wrap
C19_Witness ==
  /\ WaveJustUpdated
  /\ uptime = 3 * TimeStep
  /\ lastUpdateAt = uptime
  /\ clock = TimeStep \div 2
  /\ lastWaveUpdate = clock
  /\ waveSpeed = TimeStep
  /\ waveUpdates = 4

\* ------------------------------------------------------------------------
\* C20
\* ------------------------------------------------------------------------
\* The step leaves every channel as it was and writes nothing
OutputsKept ==
  motorIntensities' = motorIntensities /\ pwm' = pwm /\ writes' = <<>>

\* C20: an accepted INTENSITY:n changes globalIntensity alone and an
\* accepted SPEED:n changes waveSpeed alone: in every mode the mode, the wave
\* position, lastWaveUpdate and every channel stay as they were and nothing
\* is written to the PWM outputs.  A channel changes only in executePattern
\* or in the processing of MODE:STOP; executePattern changes none in mode
\* Stopped, and none in mode Wave before waveSpeed ms have passed since the
\* latest wave update.
C20_SettingsDeferToTick ==
  [][ /\ \A p \in AcceptedIntensities :
           (HandlerStep /\ command' = p[1]) =>
             /\ globalIntensity' = p[2]
             /\ OutputsKept
             /\ UNCHANGED <<currentMode, waveSpeed, currentWavePosition,
                            lastWaveUpdate>>
      /\ \A p \in AcceptedSpeeds :
           (HandlerStep /\ command' = p[1]) =>
             /\ waveSpeed' = p[2]
             /\ OutputsKept
             /\ UNCHANGED <<currentMode, globalIntensity, currentWavePosition,
                            lastWaveUpdate>>
      /\ (pwm' # pwm \/ motorIntensities' # motorIntensities) =>
           (PatternStep \/ Processes(LineModeStop))
      /\ (PatternStep /\ currentMode = "MODE_STOP") => OutputsKept
      /\ (PatternStep /\ currentMode = "MODE_WAVE" /\ lastUpdateAt >= 0
            /\ TrueElapsed < waveSpeed) => OutputsKept
    ]_vars

\* SPEED:500 accepted in mode Wave at intensity 0 set earlier: the channels
\* still carry the duties of the wave update made at intensity 255
C20_Witness ==
  /\ AfterHandler
  /\ command = SpeedLine[500]
  /\ waveSpeed = 500
  /\ currentMode = "MODE_WAVE"
  /\ globalIntensity = 0
  /\ writes = <<>>
  /\ \E i \in Channels : pwm[i] = 255 /\ motorIntensities[i] = 255

=============================================================================
